---- MODULE Spec2Model ----
(***************************************************************************)
(* Model of the blocking TCP4 stream adapter (src/src/net.rs) and of the   *)
(* DNS lookup (src/src/net/dns/mod.rs).                                    *)
(*                                                                         *)
(* One thread of control runs either lookup_host (discover, then query     *)
(* each server in turn) or a direct user of a stream (connect, then read   *)
(* and write calls).  The platform is the environment: every firmware call *)
(* returns a status drawn from Status, and a submitted token is completed  *)
(* by the separate step Fire, which signals the token's event.             *)
(*                                                                         *)
(* DnsServer::query opens its socket with Udp4Socket::connect and uses     *)
(* write and read on it.  That socket type is not part of src/: a call on  *)
(* it is one step that returns a ::Result, and the platform calls behind   *)
(* it are not modelled.                                                    *)
(***************************************************************************)
EXTENDS Integers, Sequences, FiniteSets, TLC

\* ---------------------------------------------------------------- bounds
MaxServers == 2      \* longest list of 4-byte groups in the DHCP option value
MaxAnswers == 2      \* most answer records in one DNS response
MaxCalls == 2        \* most read/write calls a direct user makes on a stream

\* ------------------------------------------------------ program constants
READ_BUF_LEN == 4096
DNS_PORT == 53
DHCP_DNS_SERVERS_OPTION == 6
CHUNK == 4

\* -------------------------------------------------------- platform status
EFI_SUCCESS == "EFI_SUCCESS"
ErrStatus == {"EFI_ABORTED", "EFI_TIMEOUT"}
Status == {EFI_SUCCESS} \cup ErrStatus

IsSuccess(status) == status = EFI_SUCCESS

\* EfiErrorKind::DeviceError, the one kind the DNS code raises itself
DeviceError == "DeviceError"

\* a usize buffer length hi * 2^32 + lo, kept as its two 32-bit halves
USize(hi, lo) == [hi |-> hi, lo |-> lo]

\* ::Result values
Ok(v) == [tag |-> "Ok", val |-> v]
Err(e) == [tag |-> "Err", err |-> e]
NoResult == [tag |-> "None"]
Panic == [tag |-> "Panic"]

\* to_res(value, status): Ok(value) on a success status, else the status as error
to_res(value, status) == IF IsSuccess(status) THEN Ok(value) ELSE Err(status)

\* ------------------------------------------------------------- discovery
\* 4-byte groups the option value is made of, and the bytes of a trailing
\* partial group
Groups == {<<10, 0, 0, 1>>, <<10, 0, 0, 2>>}
TrailBytes == <<192, 168, 1>>

RECURSIVE Flatten(_)
Flatten(ss) == IF ss = <<>> THEN <<>> ELSE Head(ss) \o Flatten(Tail(ss))

SeqsUpTo(S, n) == UNION {[1..k -> S] : k \in 0..n}

OptionValues ==
    {Flatten(gs) \o SubSeq(TrailBytes, 1, t) : gs \in SeqsUpTo(Groups, MaxServers), t \in 0..3}

DhcpOption(code, has_value, value) ==
    [code |-> code, has_value |-> has_value, value |-> value]

OptionLists ==
    {<<DhcpOption(3, TRUE, <<10, 0, 0, 254>>), DhcpOption(DHCP_DNS_SERVERS_OPTION, TRUE, v)>> :
        v \in OptionValues}
    \cup {<<DhcpOption(3, TRUE, <<10, 0, 0, 254>>)>>,
          <<DhcpOption(DHCP_DNS_SERVERS_OPTION, FALSE, <<>>)>>}

\* what get_dns_servers finds: whether SystemTable::new succeeds, the status of
\* locate_protocol, and the PXE mode data
BootCfg(sys, locate, mode, ack, v4, options) ==
    [sys_table |-> sys, locate |-> locate, mode |-> mode, dhcp_ack |-> ack, is_v4 |-> v4,
     options |-> options]

GoodOptions == <<DhcpOption(DHCP_DNS_SERVERS_OPTION, TRUE, <<10, 0, 0, 1>>)>>

\* the boot configurations lookup_host may find
BootCfgs ==
    {BootCfg(TRUE, EFI_SUCCESS, TRUE, TRUE, TRUE, o) : o \in OptionLists}
    \cup {BootCfg(TRUE, s, TRUE, TRUE, TRUE, GoodOptions) : s \in ErrStatus}
    \cup {BootCfg(TRUE, EFI_SUCCESS, FALSE, TRUE, TRUE, GoodOptions),
          BootCfg(TRUE, EFI_SUCCESS, TRUE, FALSE, TRUE, GoodOptions),
          BootCfg(TRUE, EFI_SUCCESS, TRUE, TRUE, FALSE, GoodOptions),
          BootCfg(FALSE, EFI_SUCCESS, TRUE, TRUE, TRUE, GoodOptions)}

NoCfg == [locate |-> "none"]

\* Ipv4Addr_new with the four bytes taken in the opposite order
Ipv4Addr_new_reversed(a, b, c, d) == <<d, c, b, a>>

\* Ipv4Addr::new(a, b, c, d)
Ipv4Addr_new(a, b, c, d) == <<a, b, c, d>>

\* SocketAddrV4::new(ip, port)
SocketAddrV4_new(ip, port) == [ip |-> ip, port |-> port]

\* slice.exact_chunks(n): the full chunks of n elements, in order; a shorter
\* tail is left out
exact_chunks(buf, n) ==
    [i \in 1..(Len(buf) \div n) |-> SubSeq(buf, n * (i - 1) + 1, n * i)]

\* dhcp_options().find(|o| o.code() == code): index of the first such option, 0 if none
RECURSIVE find_option(_, _, _)
find_option(options, code, i) ==
    IF i > Len(options) THEN 0
    ELSE IF options[i].code = code THEN i
    ELSE find_option(options, code, i + 1)

\* get_dns_servers without the as_dhcpv4 check
get_dns_servers_noV4Check(cfg) ==
    IF ~cfg.sys_table THEN Panic
    ELSE IF ~IsSuccess(cfg.locate) THEN Err(cfg.locate)
    ELSE IF ~cfg.mode THEN Err(DeviceError)
    ELSE IF ~cfg.dhcp_ack THEN Err(DeviceError)
    ELSE LET k == find_option(cfg.options, DHCP_DNS_SERVERS_OPTION, 1) IN
         IF k = 0 THEN Err(DeviceError)
         ELSE IF ~cfg.options[k].has_value THEN Err(DeviceError)
         ELSE LET chunks == exact_chunks(cfg.options[k].value, CHUNK)
              IN Ok([i \in DOMAIN chunks |->
                        [addr |-> SocketAddrV4_new(chunks[i], DNS_PORT)]])

get_dns_servers(cfg) ==
    IF ~cfg.sys_table THEN Panic
    ELSE IF ~IsSuccess(cfg.locate) THEN Err(cfg.locate)
    ELSE IF ~cfg.mode THEN Err(DeviceError)
    ELSE IF ~cfg.dhcp_ack THEN Err(DeviceError)
    ELSE IF ~cfg.is_v4 THEN Err(DeviceError)
    ELSE LET k == find_option(cfg.options, DHCP_DNS_SERVERS_OPTION, 1) IN
         IF k = 0 THEN Err(DeviceError)
         ELSE IF ~cfg.options[k].has_value THEN Err(DeviceError)
         ELSE LET chunks == exact_chunks(cfg.options[k].value, CHUNK)
                  ip_addresses == [i \in DOMAIN chunks |->
                      Ipv4Addr_new(chunks[i][1], chunks[i][2], chunks[i][3], chunks[i][4])]
              IN Ok([i \in DOMAIN ip_addresses |->
                        [addr |-> SocketAddrV4_new(ip_addresses[i], DNS_PORT)]])

\* ------------------------------------------------------------ DNS codec
NoError == "NoError"
ResponseCodes == {NoError, "ServerFailure"}

AnswerAddrs == {<<93, 184, 216, 34>>, <<93, 184, 216, 35>>}

\* RData of an answer record: an A record with its address, or another type
RData_A(addr) == [type |-> "A", addr |-> addr]
RData_CNAME == [type |-> "CNAME", addr |-> <<>>]
RDatas == {RData_A(a) : a \in AnswerAddrs} \cup {RData_CNAME}

Packets ==
    {[kind |-> "packet", response_code |-> rc, answers |-> as] :
        rc \in ResponseCodes, as \in SeqsUpTo(RDatas, MaxAnswers)}
Malformed == [kind |-> "malformed"]
NoWire == [kind |-> "none"]

\* what the bytes read from a server may hold
Wire == Packets \cup {Malformed}

\* Packet::parse(&buf)
Packet_parse(w) == IF w.kind = "packet" THEN Ok(w) ELSE Err("ParseError")

\* Builder::build(): the serialized query, by its length, or a failure
PacketLens == {USize(0, 29)}
BuildOutcomes == {Ok(n) : n \in PacketLens} \cup {Err("Truncated")}

\* IpAddr::V4(addr)
IpAddr_V4(addr) == [v |-> 4, addr |-> addr]

\* answers.iter().filter_map(A record -> Some(V4(addr)), else None).collect()
filter_map_A(answers) ==
    LET as == SelectSeq(answers, LAMBDA a : a.type = "A")
    IN [i \in DOMAIN as |-> IpAddr_V4(as[i].addr)]

\* query_result without the check of the response code
query_result_ignoreStatus(pkt) ==
    IF Len(pkt.answers) = 0 THEN Err(DeviceError)
    ELSE Ok(filter_map_A(pkt.answers))

\* query, after parse: the response code, the answer count, the filter
query_result(pkt) ==
    IF pkt.response_code # NoError THEN Err(DeviceError)
    ELSE IF Len(pkt.answers) = 0 THEN Err(DeviceError)
    ELSE Ok(filter_map_A(pkt.answers))

\* lookup_host_loop with the empty-result fallback left out: an empty list
\* from one server is returned at once
lookup_host_loop_noFallback(r, i, n) ==
    IF r.tag = "Err" THEN [pc |-> "done", idx |-> i, res |-> Err(r.err)]
    ELSE [pc |-> "done", idx |-> i, res |-> Ok(r.val)]

\* lookup_host_loop skipping a failed server instead of returning its error
lookup_host_loop_skipFailed(r, i, n) ==
    IF r.tag = "Ok" /\ r.val # <<>> THEN [pc |-> "done", idx |-> i, res |-> Ok(r.val)]
    ELSE IF i < n THEN [pc |-> "q_build", idx |-> i + 1, res |-> NoResult]
    ELSE IF r.tag = "Err" THEN [pc |-> "done", idx |-> i, res |-> Err(r.err)]
    ELSE [pc |-> "done", idx |-> i, res |-> Ok(<<>>)]

\* lookup_host_loop going through every server and returning the last result
lookup_host_loop_lastWins(r, i, n) ==
    IF r.tag = "Err" THEN [pc |-> "done", idx |-> i, res |-> Err(r.err)]
    ELSE IF i < n THEN [pc |-> "q_build", idx |-> i + 1, res |-> NoResult]
    ELSE [pc |-> "done", idx |-> i, res |-> Ok(r.val)]

\* lookup_host_loop stopping one server early
lookup_host_loop_offByOne(r, i, n) ==
    IF r.tag = "Err" THEN [pc |-> "done", idx |-> i, res |-> Err(r.err)]
    ELSE IF r.val # <<>> THEN [pc |-> "done", idx |-> i, res |-> Ok(r.val)]
    ELSE IF i + 1 < n THEN [pc |-> "q_build", idx |-> i + 1, res |-> NoResult]
    ELSE [pc |-> "done", idx |-> i, res |-> Ok(<<>>)]

\* lookup_host_loop querying the same server again after an error
lookup_host_loop_retry(r, i, n) ==
    IF r.tag = "Err" THEN [pc |-> "q_build", idx |-> i, res |-> NoResult]
    ELSE IF r.val # <<>> THEN [pc |-> "done", idx |-> i, res |-> Ok(r.val)]
    ELSE IF i < n THEN [pc |-> "q_build", idx |-> i + 1, res |-> NoResult]
    ELSE [pc |-> "done", idx |-> i, res |-> Ok(<<>>)]

\* lookup_host's loop body and exit for the result r of query on server i of n:
\* where control goes next, the next index, and the result when it returns
lookup_host_loop(r, i, n) ==
    IF r.tag = "Err" THEN [pc |-> "done", idx |-> i, res |-> Err(r.err)]
    ELSE IF r.val # <<>> THEN [pc |-> "done", idx |-> i, res |-> Ok(r.val)]
    ELSE IF i < n THEN [pc |-> "q_build", idx |-> i + 1, res |-> NoResult]
    ELSE [pc |-> "done", idx |-> i, res |-> Ok(<<>>)]

\* ---------------------------------------------------------------- state
VARIABLES
    pc,         \* control point of the single thread
    bootcfg,    \* the boot configuration lookup_host found (NoCfg before the call)
    ret,        \* the caller running: "query" (lookup_host), "user" (of a stream) or "none"
    servers,    \* lookup_host: dns_servers
    idx,        \* lookup_host: position of the server being queried (1-based)
    lh_result,  \* what lookup_host returned
    queries,    \* history: per finished query, its server, response and result
    stream,     \* the Tcp4Stream under construction or in use
    handle,     \* number of streams created so far; names the current one
    io_result,  \* what the last connect/read/write returned
    buflen,     \* buf.len() of the buffer for the next or current read/write
    calls,      \* read/write calls the direct user has made
    pending,    \* platform: per token, submissions accepted and not yet completed
    signaled,   \* platform: per token, whether its event is in the signaled state
    oplog       \* history of the platform calls made, in order

lhvars == <<servers, idx, lh_result, queries>>
platvars == <<pending, signaled>>
vars == <<pc, bootcfg, ret, servers, idx, lh_result, queries, stream, handle, io_result,
          buflen, calls, pending, signaled, oplog>>

Tokens == {"connect", "send", "recv", "close"}

\* `n as UINT32` of a usize n: the low 32 bits
as_UINT32(n) == n.lo

\* read/write: the one fragment, FragmentLength: buf.len() as UINT32, pointing at buf
fragment_data(n) == [FragmentLength |-> as_UINT32(n), FragmentBuffer |-> "buf"]

\* read: the receive data over fragment_data
recv_data(n) ==
    [UrgentFlag |-> FALSE, DataLength |-> as_UINT32(n), FragmentCount |-> 1,
     FragmentTable |-> <<fragment_data(n)>>]

\* write: the transmit data over fragment_data
send_data(n) ==
    [Push |-> FALSE, Urgent |-> FALSE, DataLength |-> as_UINT32(n), FragmentCount |-> 1,
     FragmentTable |-> <<fragment_data(n)>>]

\* the null Packet pointer of a default token
NullData == [DataLength |-> 0, FragmentCount |-> 0, FragmentTable |-> <<>>]

\* Tcp4Stream::new(): null handles, default (zeroed) tokens
new == [events |-> 0, device_handle |-> FALSE, protocol |-> FALSE,
        connect_token |-> EFI_SUCCESS, recv_token |-> EFI_SUCCESS,
        send_token |-> EFI_SUCCESS, close_token |-> EFI_SUCCESS,
        RxData |-> NullData, TxData |-> NullData]

CurSrv == IF ret = "query" THEN idx ELSE 0

LogEntry(op, st) == [op |-> op, srv |-> CurSrv, h |-> handle, st |-> st, len |-> buflen]

Init ==
    /\ pc = "idle"
    /\ bootcfg = NoCfg
    /\ ret = "none"
    /\ servers = <<>>
    /\ idx = 0
    /\ lh_result = NoResult
    /\ queries = <<>>
    /\ stream = new
    /\ handle = 0
    /\ io_result = NoResult
    /\ buflen = USize(0, 0)
    /\ calls = 0
    /\ pending = [t \in Tokens |-> 0]
    /\ signaled = [t \in Tokens |-> FALSE]
    /\ oplog = <<>>


\* -------------------------------------------------- lookup_host and query
\* lookup_host_start without the is_empty check: an empty list falls through
\* the loop to Ok(Vec::new())
lookup_host_start_noEmptyCheck(r) ==
    IF r.tag = "Panic" THEN [pc |-> "done", servers |-> <<>>, idx |-> 0, res |-> Panic]
    ELSE IF r.tag = "Err" THEN [pc |-> "done", servers |-> <<>>, idx |-> 0, res |-> Err(r.err)]
    ELSE IF r.val = <<>> THEN [pc |-> "done", servers |-> <<>>, idx |-> 0, res |-> Ok(<<>>)]
    ELSE [pc |-> "q_build", servers |-> r.val, idx |-> 1, res |-> NoResult]

\* lookup_host, up to the loop: the result r of get_dns_servers decides whether
\* it returns at once or starts the loop at the first server; a panic of
\* get_dns_servers unwinds through it
lookup_host_start(r) ==
    IF r.tag = "Panic" THEN [pc |-> "done", servers |-> <<>>, idx |-> 0, res |-> Panic]
    ELSE IF r.tag = "Err" THEN [pc |-> "done", servers |-> <<>>, idx |-> 0, res |-> Err(r.err)]
    ELSE IF r.val = <<>> THEN [pc |-> "done", servers |-> <<>>, idx |-> 0, res |-> Err(DeviceError)]
    ELSE [pc |-> "q_build", servers |-> r.val, idx |-> 1, res |-> NoResult]

lookup_host_discover ==
    /\ pc = "idle"
    /\ \E cfg \in BootCfgs :
          LET st == lookup_host_start(get_dns_servers(cfg)) IN
          /\ bootcfg' = cfg
          /\ pc' = st.pc
          /\ servers' = st.servers
          /\ idx' = st.idx
          /\ lh_result' = st.res
    /\ ret' = "query"
    /\ UNCHANGED <<queries, stream, handle, io_result, buflen, calls, pending, signaled, oplog>>

\* query returns r to lookup_host's loop (w: the response it parsed, if any)
QueryReturn(r, w) ==
    LET nx == lookup_host_loop(r, idx, Len(servers)) IN
    /\ queries' = Append(queries, [srv |-> idx, wire |-> w, res |-> r])
    /\ pc' = nx.pc
    /\ idx' = nx.idx
    /\ lh_result' = nx.res
    /\ servers' = servers

\* Udp4Socket::connect, write and read (the socket type is not part of
\* src/): each call returns a ::Result, Ok on the success status and the
\* error status otherwise
SocketOutcomes == Status

\* the entry logged for the socket call op of the query on the current server
SocketCall(op, h, st) == [op |-> op, srv |-> idx, h |-> h, st |-> st, len |-> buflen]

\* query: build the request
query_build ==
    /\ pc = "q_build"
    /\ \E b \in BuildOutcomes :
          /\ oplog' = Append(oplog, [op |-> "build", srv |-> idx, h |-> handle,
                                     st |-> IF b.tag = "Ok" THEN EFI_SUCCESS ELSE b.err,
                                     len |-> USize(0, 0)])
          /\ IF b.tag = "Err"
                THEN QueryReturn(Err(DeviceError), NoWire) /\ buflen' = buflen
                ELSE pc' = "q_connect" /\ buflen' = b.val /\ UNCHANGED lhvars
    /\ UNCHANGED <<bootcfg, ret, stream, handle, io_result, calls, pending, signaled>>

\* query: Udp4Socket::connect(self.addr)? opens the socket of this query
query_connect ==
    /\ pc = "q_connect"
    /\ handle' = handle + 1
    /\ \E st \in SocketOutcomes :
          /\ oplog' = Append(oplog, SocketCall("connect", handle + 1, st))
          /\ IF IsSuccess(st)
                THEN pc' = "q_write" /\ UNCHANGED lhvars
                ELSE QueryReturn(Err(st), NoWire)
    /\ UNCHANGED <<bootcfg, ret, stream, io_result, buflen, calls, pending, signaled>>

\* query_write going on to the read whatever write returned
query_write_unchecked ==
    /\ pc = "q_write"
    /\ \E st \in SocketOutcomes : oplog' = Append(oplog, SocketCall("write", handle, st))
    /\ pc' = "q_read"
    /\ buflen' = USize(0, READ_BUF_LEN)
    /\ UNCHANGED <<bootcfg, ret, servers, idx, lh_result, queries, stream, handle,
                   io_result, calls, pending, signaled>>

\* query: socket.write(&packet)?, then the 4096-byte buffer for the read
query_write ==
    /\ pc = "q_write"
    /\ \E st \in SocketOutcomes :
          /\ oplog' = Append(oplog, SocketCall("write", handle, st))
          /\ IF IsSuccess(st)
                THEN pc' = "q_read" /\ buflen' = USize(0, READ_BUF_LEN) /\ UNCHANGED lhvars
                ELSE QueryReturn(Err(st), NoWire) /\ buflen' = buflen
    /\ UNCHANGED <<bootcfg, ret, stream, handle, io_result, calls, pending, signaled>>

\* query: socket.read(&mut buf)?
query_read ==
    /\ pc = "q_read"
    /\ \E st \in SocketOutcomes :
          /\ oplog' = Append(oplog, SocketCall("read", handle, st))
          /\ IF IsSuccess(st)
                THEN pc' = "q_parse" /\ UNCHANGED lhvars
                ELSE QueryReturn(Err(st), NoWire)
    /\ UNCHANGED <<bootcfg, ret, stream, handle, io_result, buflen, calls, pending, signaled>>

\* query: Packet::parse(&buf).unwrap() and the checks on the packet; unwrap of
\* a parse error aborts the program
query_parse ==
    /\ pc = "q_parse"
    /\ \E w \in Wire :
          LET p == Packet_parse(w) IN
          /\ oplog' = Append(oplog, [op |-> "parse", srv |-> idx, h |-> handle,
                                     st |-> IF p.tag = "Ok" THEN EFI_SUCCESS ELSE p.err,
                                     len |-> buflen])
          /\ IF p.tag = "Err"
                THEN /\ queries' = Append(queries, [srv |-> idx, wire |-> w, res |-> Panic])
                     /\ lh_result' = Panic
                     /\ pc' = "done"
                     /\ UNCHANGED <<servers, idx>>
                ELSE QueryReturn(query_result(p.val), w)
    /\ UNCHANGED <<bootcfg, ret, stream, handle, io_result, buflen, calls, pending, signaled>>

\* ------------------------------------------------------------ Tcp4Stream
\* ret_on_err!(call): the firmware call op at control point `at` returns a status;
\* a non-success status returns Err(status) from the function (control goes to
\* retpc), a success status lets OnSuccess say what happens next
FirmwareCall(at, op, retpc, OnSuccess) ==
    /\ pc = at
    /\ \E st \in Status :
          /\ oplog' = Append(oplog, LogEntry(op, st))
          /\ IF IsSuccess(st)
                THEN OnSuccess /\ io_result' = io_result
                ELSE /\ pc' = retpc
                     /\ io_result' = Err(st)
                     /\ UNCHANGED <<stream, pending>>
    /\ UNCHANGED <<bootcfg, ret, servers, idx, lh_result, queries, handle, buflen, calls, signaled>>

\* wait_for_evt(event of tok) returning status st: WaitForEvent returns success
\* once the event is signaled (and resets it), or fails with an error status
wait_for_evt(tok, st) ==
    /\ IsSuccess(st) => signaled[tok]
    /\ oplog' = Append(oplog, LogEntry("WaitForEvent", st))
    /\ signaled' = IF IsSuccess(st) THEN [signaled EXCEPT ![tok] = FALSE] ELSE signaled
    /\ UNCHANGED <<bootcfg, ret, servers, idx, lh_result, queries, handle,
                   buflen, calls, pending>>

\* connect: null_callback is made by transmuting a null pointer into a function
\* pointer, which is undefined behaviour: a build may go on to the CreateEvent
\* calls (connect_CreateEvent) or trap here, before any firmware call
connect_null_callback_trap ==
    /\ pc = "c_events" /\ stream.events = 0
    /\ pc' = "aborted"
    /\ UNCHANGED <<bootcfg, ret, servers, idx, lh_result, queries, stream, handle, io_result,
                   buflen, calls, pending, signaled, oplog>>

\* connect: the four CreateEvent calls (connect, send, recv, close token events)
connect_CreateEvent ==
    FirmwareCall("c_events", "CreateEvent", "ret_connect",
        /\ stream' = [stream EXCEPT !.events = @ + 1]
        /\ pc' = IF stream.events + 1 = 4 THEN "c_locate" ELSE "c_events"
        /\ pending' = pending)

\* connect: LocateProtocol of the TCP4 service binding protocol
connect_LocateProtocol ==
    FirmwareCall("c_locate", "LocateProtocol", "ret_connect",
        /\ pc' = "c_child" /\ UNCHANGED <<stream, pending>>)

\* connect: CreateChild fills stream.device_handle
connect_CreateChild ==
    FirmwareCall("c_child", "CreateChild", "ret_connect",
        /\ stream' = [stream EXCEPT !.device_handle = TRUE]
        /\ pc' = "c_open" /\ pending' = pending)

\* connect: OpenProtocol fills stream.protocol
connect_OpenProtocol ==
    FirmwareCall("c_open", "OpenProtocol", "ret_connect",
        /\ stream' = [stream EXCEPT !.protocol = TRUE]
        /\ pc' = "c_configure" /\ pending' = pending)

\* connect_Configure with the status of Configure not checked
connect_Configure_unchecked ==
    /\ pc = "c_configure"
    /\ \E st \in Status : oplog' = Append(oplog, LogEntry("Configure", st))
    /\ pc' = "c_connect"
    /\ UNCHANGED <<bootcfg, ret, servers, idx, lh_result, queries, stream, handle,
                   io_result, buflen, calls, pending, signaled>>

\* connect: Configure with config_data
connect_Configure ==
    FirmwareCall("c_configure", "Configure", "ret_connect",
        /\ pc' = "c_connect" /\ UNCHANGED <<stream, pending>>)

\* connect: Connect submits connect_token
connect_Connect ==
    FirmwareCall("c_connect", "Connect", "ret_connect",
        /\ pending' = [pending EXCEPT !["connect"] = @ + 1]
        /\ pc' = "c_wait" /\ stream' = stream)

\* connect, after the wait: wait_for_evt(..)? then Ok(stream); the stream is
\* named by its handle number
connect_result(wait_st, h, token_st) == to_res([handle |-> h], wait_st)

connect_wait ==
    /\ pc = "c_wait"
    /\ \E st \in Status :
          /\ wait_for_evt("connect", st)
          /\ io_result' = connect_result(st, handle, stream.connect_token)
    /\ pc' = "ret_connect"
    /\ stream' = stream

\* io_done without the look at the token's completion status
io_done_unchecked(wait_st, n, token_st) == to_res(n, wait_st)

\* read/write, after the wait: wait_for_evt(..)? then to_res(buf.len(), token status)
io_done(wait_st, n, token_st) ==
    IF ~IsSuccess(wait_st) THEN Err(wait_st) ELSE to_res(n, token_st)

\* what the token's Packet pointer finds once read or write has returned: the
\* descriptor was a local of the call, so behind the pointer is the descriptor
\* as it was left or whatever the stack holds by then
GarbageData == [DataLength |-> 0, FragmentCount |-> 7, FragmentTable |-> <<>>]
Dangling(d) == {d, GarbageData}

\* read/write: the address of the local descriptor is stored in the token, then
\* the firmware call op submits the token; ret_on_err! returns its error status
\* (and the descriptor goes out of scope)
Submit(at, op, tok, field, data, waitpc, retpc) ==
    /\ pc = at
    /\ \E st \in Status :
          /\ oplog' = Append(oplog, LogEntry(op, st))
          /\ IF IsSuccess(st)
                THEN /\ pending' = [pending EXCEPT ![tok] = @ + 1]
                     /\ pc' = waitpc
                     /\ io_result' = io_result
                     /\ stream' = [stream EXCEPT ![field] = data]
                ELSE /\ pc' = retpc
                     /\ io_result' = Err(st)
                     /\ pending' = pending
                     /\ \E d \in Dangling(data) : stream' = [stream EXCEPT ![field] = d]
    /\ UNCHANGED <<bootcfg, ret, servers, idx, lh_result, queries, handle, buflen, calls, signaled>>

\* read: recv_token.Packet.RxData = &recv_data, then Receive submits recv_token
read_Receive ==
    Submit("r_submit", "Receive", "recv", "RxData", recv_data(buflen), "r_wait", "ret_read")

read_wait ==
    /\ pc = "r_wait"
    /\ \E st \in Status :
          /\ wait_for_evt("recv", st)
          /\ io_result' = io_done(st, buflen, stream.recv_token)
    /\ pc' = "ret_read"
    /\ \E d \in Dangling(stream.RxData) : stream' = [stream EXCEPT !.RxData = d]

\* write: send_token.Packet.TxData = &send_data, then Transmit submits send_token
write_Transmit ==
    Submit("w_submit", "Transmit", "send", "TxData", send_data(buflen), "w_wait", "ret_write")

write_wait ==
    /\ pc = "w_wait"
    /\ \E st \in Status :
          /\ wait_for_evt("send", st)
          /\ io_result' = io_done(st, buflen, stream.send_token)
    /\ pc' = "ret_write"
    /\ \E d \in Dangling(stream.TxData) : stream' = [stream EXCEPT !.TxData = d]

\* ------------------------------------------------------------- platform
TokenField(tok) ==
    CASE tok = "connect" -> "connect_token"
      [] tok = "send" -> "send_token"
      [] tok = "recv" -> "recv_token"
      [] tok = "close" -> "close_token"

\* the platform completes a submitted token: it stores the completion status
\* in the token and signals the token's event
Fire ==
    /\ \E tok \in Tokens, st \in Status :
          /\ pending[tok] > 0
          /\ pending' = [pending EXCEPT ![tok] = @ - 1]
          /\ signaled' = [signaled EXCEPT ![tok] = TRUE]
          /\ stream' = [stream EXCEPT ![TokenField(tok)] = st]
    /\ UNCHANGED <<pc, bootcfg, ret, servers, idx, lh_result, queries, handle, io_result,
                   buflen, calls, oplog>>

\* ------------------------------------------------- direct user of a stream
BufLens == {USize(0, 5), USize(1, 5)}

\* the user calls Tcp4Stream::connect(addr)
user_connect ==
    /\ pc = "idle"
    /\ pc' = "c_events"
    /\ ret' = "user"
    /\ stream' = new
    /\ handle' = handle + 1
    /\ UNCHANGED <<bootcfg, servers, idx, lh_result, queries, io_result, buflen, calls,
                   pending, signaled, oplog>>

\* connect, read or write returns to the user; only Ok(stream) gives a stream
user_return ==
    /\ pc \in {"ret_connect", "ret_read", "ret_write"} /\ ret = "user"
    /\ pc' = IF pc = "ret_connect" /\ io_result.tag = "Err" THEN "done" ELSE "u_ready"
    /\ UNCHANGED <<bootcfg, ret, servers, idx, lh_result, queries, stream, handle, io_result,
                   buflen, calls, pending, signaled, oplog>>

\* the user calls stream.read(buf) with a buffer of n bytes
user_read ==
    /\ pc = "u_ready" /\ calls < MaxCalls
    /\ \E n \in BufLens : buflen' = n
    /\ calls' = calls + 1
    /\ pc' = "r_submit"
    /\ UNCHANGED <<bootcfg, ret, servers, idx, lh_result, queries, stream, handle, io_result,
                   pending, signaled, oplog>>

\* the user calls stream.write(buf) with a buffer of n bytes
user_write ==
    /\ pc = "u_ready" /\ calls < MaxCalls
    /\ \E n \in BufLens : buflen' = n
    /\ calls' = calls + 1
    /\ pc' = "w_submit"
    /\ UNCHANGED <<bootcfg, ret, servers, idx, lh_result, queries, stream, handle, io_result,
                   pending, signaled, oplog>>

\* a stream whose teardown submits the close token
drop_stream_closing(log) == Append(log, LogEntry("Close", EFI_SUCCESS))

\* the stream goes out of scope: Tcp4Stream has no Drop implementation and no
\* method that calls Close, so its teardown makes no platform call
drop_stream(log) == log

\* the user lets the stream go out of scope
user_drop ==
    /\ pc = "u_ready"
    /\ pc' = "done"
    /\ oplog' = drop_stream(oplog)
    /\ UNCHANGED <<bootcfg, ret, servers, idx, lh_result, queries, stream, handle, io_result,
                   buflen, calls, pending, signaled>>

Next ==
    \/ lookup_host_discover
    \/ query_build
    \/ query_connect
    \/ query_write
    \/ query_read
    \/ query_parse
    \/ connect_null_callback_trap
    \/ connect_CreateEvent
    \/ connect_LocateProtocol
    \/ connect_CreateChild
    \/ connect_OpenProtocol
    \/ connect_Configure
    \/ connect_Connect
    \/ connect_wait
    \/ read_Receive
    \/ read_wait
    \/ write_Transmit
    \/ write_wait
    \/ Fire
    \/ user_connect
    \/ user_return
    \/ user_read
    \/ user_write
    \/ user_drop

Spec == Init /\ [][Next]_vars

\* the steps the thread takes by itself once a call has been made: everything
\* but the waits and the caller's decisions to call or drop
ProgStep ==
    \/ query_build
    \/ query_connect
    \/ query_write
    \/ query_read
    \/ query_parse
    \/ connect_null_callback_trap
    \/ connect_CreateEvent
    \/ connect_LocateProtocol
    \/ connect_CreateChild
    \/ connect_OpenProtocol
    \/ connect_Configure
    \/ connect_Connect
    \/ read_Receive
    \/ write_Transmit
    \/ user_return

\* a wait returning success: the blocked thread resumes once its event is signaled
WaitReturnsOk ==
    /\ connect_wait \/ read_wait \/ write_wait
    /\ IsSuccess(oplog'[Len(oplog')].st)

\* the thread keeps running, a blocked wait resumes once its event is signaled,
\* and the platform completes every token submitted to it
FairSpec == Spec /\ WF_vars(ProgStep) /\ WF_vars(WaitReturnsOk) /\ WF_vars(Fire)


\* ================================================================ claims
\* the platform calls of a stream
NetOps == {"CreateEvent", "LocateProtocol", "CreateChild", "OpenProtocol",
           "Configure", "Connect", "WaitForEvent", "Receive", "Transmit"}

\* the calls a query makes on its socket
SocketOps == {"connect", "write", "read"}

\* lookup_host has returned (or aborted)
Resolved == ret = "query" /\ pc = "done"

\* a response with success status and no answer record at all
ZeroAnswerSuccess(w) ==
    w.kind = "packet" /\ w.response_code = NoError /\ w.answers = <<>>

\* a response with success status and exactly one answer, of address type
OneAddressAnswer(w) ==
    w.kind = "packet" /\ w.response_code = NoError /\ Len(w.answers) = 1
    /\ w.answers[1].type = "A"

\* a response with success status and answers, none of them of address type
OnlyOtherAnswers(w) ==
    w.kind = "packet" /\ w.response_code = NoError /\ Len(w.answers) >= 1
    /\ \A k \in DOMAIN w.answers : w.answers[k].type # "A"

\* some network operation was issued for server position i
Contacted(i) == \E k \in DOMAIN oplog : oplog[k].srv = i /\ oplog[k].op \in SocketOps

\* ---------------------------------------------------------------- C1
\* C1 as stated: with two discovered servers, once the first server has
\* answered with success status and zero answer records, lookup_host does not
\* fail but goes on to the second server, and when the second answers with one
\* address record lookup_host returns that address.
C1_Original ==
    (Len(servers) = 2 /\ Len(queries) >= 1 /\ ZeroAnswerSuccess(queries[1].wire)) =>
        /\ lh_result.tag # "Err"
        /\ (Resolved /\ Len(queries) = 2 /\ OneAddressAnswer(queries[2].wire)) =>
              lh_result = Ok(<<IpAddr_V4(queries[2].wire.answers[1].addr)>>)

\* C1 amended: the fallback happens when the first server's response has
\* success status and at least one answer record but none of address type; the
\* second server is then queried and its one address answer is returned.  A
\* response with success status and zero answer records makes lookup_host
\* return an error, and the second server is not contacted.
C1_FallbackOnNoAddressAnswers ==
    /\ (Len(servers) = 2 /\ Len(queries) >= 1 /\ OnlyOtherAnswers(queries[1].wire)) =>
          /\ lh_result.tag # "Err" \/ Len(queries) = 2
          /\ Len(queries) = 1 => (idx = 2 /\ ~Resolved /\ lh_result = NoResult)
          /\ (Resolved /\ Len(queries) = 2 /\ OneAddressAnswer(queries[2].wire)) =>
                lh_result = Ok(<<IpAddr_V4(queries[2].wire.answers[1].addr)>>)
    /\ (Len(servers) = 2 /\ Len(queries) >= 1 /\ ZeroAnswerSuccess(queries[1].wire)) =>
          /\ Resolved
          /\ lh_result = Err(DeviceError)
          /\ ~Contacted(2)

C1_Witness ==
    /\ Resolved /\ Len(servers) = 2 /\ Len(queries) = 2
    /\ OnlyOtherAnswers(queries[1].wire)
    /\ OneAddressAnswer(queries[2].wire)
    /\ lh_result.tag = "Ok" /\ Len(lh_result.val) = 1

\* ---------------------------------------------------------------- C2
\* C2: when the query on server i fails, lookup_host returns that same error
\* at once and no connect, write or read is ever issued for a later server; a
\* failed connect, write or read of a query is the last call of the whole
\* lookup and its error is the error lookup_host returns; lookup_host moves
\* past a server only after its query returned Ok with an empty list.
C2_ErrorStopsLookup ==
    /\ \A i \in DOMAIN queries :
          /\ queries[i].res.tag = "Err" =>
                /\ i = Len(queries)
                /\ Resolved
                /\ lh_result = Err(queries[i].res.err)
                /\ \A j \in (i + 1)..Len(servers) : ~Contacted(j)
                /\ \A k \in DOMAIN oplog : oplog[k].srv <= i
          /\ i < Len(queries) => queries[i].res = Ok(<<>>)
    /\ \A k \in DOMAIN oplog :
          (oplog[k].op \in SocketOps /\ ~IsSuccess(oplog[k].st)) =>
              /\ k = Len(oplog)
              /\ Resolved
              /\ lh_result = Err(oplog[k].st)
              /\ queries[Len(queries)].res = Err(oplog[k].st)
              /\ queries[Len(queries)].srv = oplog[k].srv

C2_Witness ==
    /\ Resolved /\ Len(servers) = 2 /\ Len(queries) = 1
    /\ lh_result = Err("EFI_TIMEOUT")
    /\ oplog[Len(oplog)].op = "write" /\ oplog[Len(oplog)].st = "EFI_TIMEOUT"
    /\ ~Contacted(2)

\* ---------------------------------------------------------------- C3
\* C3: when get_dns_servers succeeds with an empty list, lookup_host returns
\* an error (the code's DeviceError kind) and makes no platform call at all.
C3_EmptyListFails ==
    (bootcfg # NoCfg /\ get_dns_servers(bootcfg) = Ok(<<>>)) =>
        /\ Resolved
        /\ lh_result = Err(DeviceError)
        /\ oplog = <<>>
        /\ queries = <<>>
        /\ handle = 0

C3_Witness ==
    /\ Resolved /\ bootcfg # NoCfg
    /\ get_dns_servers(bootcfg) = Ok(<<>>)
    /\ lh_result.tag = "Err"

\* ---------------------------------------------------------------- C4
\* C4: the servers are queried in discovery order (the server position of the
\* logged calls never decreases and the k-th query is on server k), and a
\* non-empty result of lookup_host is exactly the result of the query on the
\* first server whose query returned a non-empty list: every earlier query
\* returned an empty list, and no later server is contacted.
C4_FirstNonEmptyWins ==
    /\ \A k \in DOMAIN queries : queries[k].srv = k
    /\ \A k \in 1..(Len(oplog) - 1) :
          oplog[k].srv >= 1 =>
              (oplog[k + 1].srv = oplog[k].srv \/ oplog[k + 1].srv = oplog[k].srv + 1)
    /\ (ret = "query" /\ oplog # <<>>) => oplog[1].srv = 1
    /\ \A i \in DOMAIN queries :
          (queries[i].res.tag = "Ok" /\ queries[i].res.val # <<>>) =>
              /\ i = Len(queries)
              /\ Resolved
              /\ lh_result = Ok(queries[i].res.val)
              /\ \A j \in 1..(i - 1) : queries[j].res = Ok(<<>>)
              /\ \A j \in (i + 1)..Len(servers) : ~Contacted(j)
    /\ (lh_result.tag = "Ok" /\ lh_result.val # <<>>) =>
          lh_result = queries[Len(queries)].res

C4_Witness ==
    /\ Resolved /\ Len(servers) = 2 /\ Len(queries) = 1
    /\ lh_result.tag = "Ok" /\ Len(lh_result.val) = 2
    /\ lh_result.val[1] # lh_result.val[2]
    /\ ~Contacted(2)


\* ---------------------------------------------------------------- C5
\* C5: connect returns Ok(stream) only when the Connect token completed with
\* success status; a Connect that was submitted and whose event fired with a
\* non-success completion status makes connect return an error.
C5_ConnectChecksCompletion ==
    (pc = "ret_connect" /\ io_result.tag = "Ok") => IsSuccess(stream.connect_token)

\* ---------------------------------------------------------------- C6
ConnectOrder ==
    <<"CreateEvent", "CreateEvent", "CreateEvent", "CreateEvent", "LocateProtocol",
      "CreateChild", "OpenProtocol", "Configure", "Connect", "WaitForEvent">>

\* the platform calls made on stream h, in order
HandleOps(h) == SelectSeq(oplog, LAMBDA e : e.h = h /\ e.op \in NetOps)

\* C6: the platform calls of connect on a stream follow ConnectOrder; a step is
\* made only after every earlier step returned success; a step that returns a
\* non-success status is the last call on that stream (so Connect is not
\* submitted after a failed Configure), and connect returns that status as an
\* error and no stream.
C6_ConnectStepOrder ==
    \A h \in 1..handle :
        LET L == HandleOps(h) IN
        \A k \in DOMAIN L :
            k <= Len(ConnectOrder) =>
                /\ L[k].op = ConnectOrder[k]
                /\ \A j \in 1..(k - 1) : IsSuccess(L[j].st)
                /\ ~IsSuccess(L[k].st) =>
                      /\ k = Len(L)
                      /\ h = handle
                      /\ pc \in {"ret_connect", "done"}
                      /\ io_result = Err(L[k].st)
                      /\ \A j \in DOMAIN L : L[j].op \notin {"Receive", "Transmit"}
                      /\ k < 9 => \A j \in DOMAIN L : L[j].op # "Connect"

C6_Witness ==
    /\ ret = "user" /\ pc = "done"
    /\ Len(HandleOps(1)) = 8
    /\ oplog[Len(oplog)].op = "Configure"
    /\ ~IsSuccess(oplog[Len(oplog)].st)
    /\ io_result.tag = "Err"

\* ---------------------------------------------------------------- C7
\* the step in which read (or write) returns: from the submission when it
\* failed, else from the wait
IoReturn(submit_pc, wait_pc, ret_pc, submit_op, tokfield) ==
    (pc \in {submit_pc, wait_pc} /\ pc' = ret_pc) =>
        LET last == oplog'[Len(oplog')] IN
        /\ io_result'.tag \in {"Ok", "Err"}
        /\ io_result'.tag = "Ok" => io_result'.val = buflen
        /\ pc = submit_pc =>
              /\ last.op = submit_op /\ ~IsSuccess(last.st)
              /\ io_result' = Err(last.st)
        /\ pc = wait_pc =>
              /\ oplog[Len(oplog)].op = submit_op /\ IsSuccess(oplog[Len(oplog)].st)
              /\ last.op = "WaitForEvent"
              /\ io_result'.tag = "Ok" <=>
                    (IsSuccess(last.st) /\ IsSuccess(stream[tokfield]))

\* C7: read and write on a buffer of length N return Ok(N) exactly when the
\* submission returned success, the wait returned success and the token's
\* completion status is success; otherwise they return an error, and an Ok
\* never carries another count than N.
C7_ReadWriteResult ==
    [][/\ IoReturn("r_submit", "r_wait", "ret_read", "Receive", "recv_token")
       /\ IoReturn("w_submit", "w_wait", "ret_write", "Transmit", "send_token")]_vars

C7_Witness ==
    /\ ret = "user" /\ pc = "ret_read"
    /\ io_result = Ok(USize(0, 5))
    /\ buflen = USize(0, 5)
    /\ calls = 2
    /\ oplog[Len(oplog)].op = "WaitForEvent" /\ IsSuccess(oplog[Len(oplog)].st)

\* ---------------------------------------------------------------- C8
\* the addresses of the address-type records of a list of answers, in order
RECURSIVE AddressAnswers(_)
AddressAnswers(answers) ==
    IF answers = <<>> THEN <<>>
    ELSE (IF Head(answers).type = "A" THEN <<IpAddr_V4(Head(answers).addr)>> ELSE <<>>)
         \o AddressAnswers(Tail(answers))

\* C8: a query whose response parsed fails when the response code is not
\* success or there is no answer record; otherwise it returns Ok with the
\* addresses of the address-type answers in response order, other records
\* dropped (an empty list when no answer is of address type).
C8_QueryResult ==
    \A i \in DOMAIN queries :
        LET w == queries[i].wire
            r == queries[i].res
        IN w.kind = "packet" =>
              IF w.response_code # NoError \/ Len(w.answers) = 0
              THEN r.tag = "Err"
              ELSE r = Ok(AddressAnswers(w.answers))

C8_Witness ==
    \E i \in DOMAIN queries :
        /\ queries[i].wire.kind = "packet"
        /\ Len(queries[i].wire.answers) = 2
        /\ queries[i].wire.answers[1].type = "CNAME"
        /\ queries[i].wire.answers[2].type = "A"
        /\ queries[i].res = Ok(<<IpAddr_V4(queries[i].wire.answers[2].addr)>>)

\* ---------------------------------------------------------------- C9
\* C9: a response the codec cannot parse makes query and lookup_host return an
\* error value, and lookup_host always ends with Ok or Err, never an abort.
C9_MalformedIsError ==
    /\ \A i \in DOMAIN queries :
          queries[i].wire = Malformed =>
              (queries[i].res.tag = "Err" /\ lh_result.tag = "Err")
    /\ Resolved => lh_result.tag \in {"Ok", "Err"}

\* ---------------------------------------------------------------- C10
\* the number of times query was entered for server position i
TimesQueried(i) ==
    Cardinality({k \in DOMAIN oplog : oplog[k].op = "build" /\ oplog[k].srv = i})

\* C10: when every discovered server was queried and every query returned Ok
\* with an empty list, lookup_host returns Ok with an empty list; it returns
\* that only then, after one query per server in discovery order; and while
\* servers are left and all queries so far were empty it has not returned.
C10_AllEmptyGivesEmpty ==
    /\ (Resolved /\ queries # <<>> /\ Len(queries) = Len(servers)
        /\ \A i \in DOMAIN queries : queries[i].res = Ok(<<>>)) =>
          lh_result = Ok(<<>>)
    /\ lh_result = Ok(<<>>) =>
          /\ Resolved
          /\ servers # <<>>
          /\ Len(queries) = Len(servers)
          /\ \A i \in DOMAIN servers :
                /\ queries[i].srv = i
                /\ queries[i].res = Ok(<<>>)
                /\ TimesQueried(i) = 1
    /\ (ret = "query" /\ Len(queries) < Len(servers)
        /\ \A i \in DOMAIN queries : queries[i].res = Ok(<<>>)) =>
          ~Resolved

C10_Witness ==
    /\ Resolved /\ Len(servers) = 2 /\ Len(queries) = 2
    /\ lh_result = Ok(<<>>)
    /\ OnlyOtherAnswers(queries[1].wire) /\ OnlyOtherAnswers(queries[2].wire)

\* ---------------------------------------------------------------- C11
\* the cases in which the boot configuration gives no name servers: protocol
\* not located, no mode record, no DHCP acknowledgement, acknowledgement not
\* DHCPv4, no option with code 6, or the code-6 option without a value
\* get_dns_servers got its system table, so locate_protocol and the steps
\* after it are run
SysTableReady == bootcfg # NoCfg /\ bootcfg.sys_table

NoServersCase(cfg) ==
    \/ ~IsSuccess(cfg.locate)
    \/ ~cfg.mode
    \/ ~cfg.dhcp_ack
    \/ ~cfg.is_v4
    \/ \A i \in DOMAIN cfg.options : cfg.options[i].code # DHCP_DNS_SERVERS_OPTION
    \/ \E i \in DOMAIN cfg.options :
          /\ cfg.options[i].code = DHCP_DNS_SERVERS_OPTION
          /\ ~cfg.options[i].has_value
          /\ \A j \in 1..(i - 1) : cfg.options[j].code # DHCP_DNS_SERVERS_OPTION

\* C11: in each of these cases of the steps get_dns_servers runs on its system
\* table (locate_protocol fails, no mode, no DHCP ack, ack not DHCPv4, no
\* code-6 option, code-6 option without value) it returns an error and no server
\* list (the status of locate_protocol when that failed), and lookup_host
\* returns that error without any platform call.
C11_DiscoveryErrors ==
    (SysTableReady /\ NoServersCase(bootcfg)) =>
        /\ Resolved
        /\ lh_result.tag = "Err"
        /\ lh_result.err = (IF IsSuccess(bootcfg.locate) THEN DeviceError ELSE bootcfg.locate)
        /\ servers = <<>>
        /\ oplog = <<>>
        /\ queries = <<>>
        /\ handle = 0

C11_Witness ==
    /\ Resolved /\ SysTableReady
    /\ IsSuccess(bootcfg.locate) /\ bootcfg.mode /\ bootcfg.dhcp_ack /\ ~bootcfg.is_v4
    /\ lh_result = Err(DeviceError)

\* ---------------------------------------------------------------- C12
\* the value of the first code-6 option of a boot configuration that has one
DnsOptionValue(cfg) ==
    cfg.options[CHOOSE i \in DOMAIN cfg.options :
        /\ cfg.options[i].code = DHCP_DNS_SERVERS_OPTION
        /\ \A j \in 1..(i - 1) : cfg.options[j].code # DHCP_DNS_SERVERS_OPTION].value

\* C12: for a code-6 value of L bytes get_dns_servers returns L \div 4 servers,
\* the i-th (1-based) made of bytes 4i-3 .. 4i of the value in that order, with
\* port 53; trailing bytes that do not fill a group give no server and no
\* error; lookup_host's loop runs over exactly that list.
C12_ServersFromBytes ==
    (SysTableReady /\ ~NoServersCase(bootcfg)) =>
        LET v == DnsOptionValue(bootcfg)
            r == get_dns_servers(bootcfg)
        IN /\ r.tag = "Ok"
           /\ Len(r.val) = Len(v) \div 4
           /\ \A i \in DOMAIN r.val :
                 /\ r.val[i].addr.ip = <<v[4 * i - 3], v[4 * i - 2], v[4 * i - 1], v[4 * i]>>
                 /\ r.val[i].addr.port = 53
           /\ Len(v) >= 4 => servers = r.val
           /\ Len(v) < 4 => (servers = <<>> /\ lh_result = Err(DeviceError))

C12_Witness ==
    /\ SysTableReady /\ ~NoServersCase(bootcfg)
    /\ Len(DnsOptionValue(bootcfg)) = 9
    /\ Len(servers) = 2
    /\ servers[1].addr.ip = <<10, 0, 0, 2>>
    /\ servers[2].addr.ip = <<10, 0, 0, 1>>

\* ---------------------------------------------------------------- C13
\* C13: the list of servers got from the boot configuration never holds the
\* same endpoint twice.
C13_NoDuplicateServers ==
    \A i, j \in DOMAIN servers : i # j => servers[i] # servers[j]

\* ---------------------------------------------------------------- C14
\* C14: at every moment at most one submission of the Receive token and at
\* most one of the Send token is outstanding (accepted by the platform and not
\* yet completed), also after a read or write that returned the error of the
\* wait primitive.
C14_OneOutstanding ==
    \A t \in {"recv", "send"} : pending[t] <= 1

\* ---------------------------------------------------------------- C15
\* C15: Receive or Transmit is submitted on a stream only after the Connect
\* token of that stream completed with success status.
C15_SubmitOnlyWhenConnected ==
    (\E k \in DOMAIN oplog : oplog[k].h = handle /\ oplog[k].op \in {"Receive", "Transmit"}) =>
        IsSuccess(stream.connect_token)

\* ---------------------------------------------------------------- C16
\* the logged operations of the query on server position s
QueryOps(s) == SelectSeq(oplog, LAMBDA e : e.srv = s)

\* the stage of a query an entry belongs to: 1 build, 2 connect, 3 write,
\* 4 read, 5 parse
StageOf(e) ==
    CASE e.op = "build" -> 1
      [] e.op = "connect" -> 2
      [] e.op = "write" -> 3
      [] e.op = "read" -> 4
      [] e.op = "parse" -> 5

CountOp(Q, op) == Cardinality({k \in DOMAIN Q : Q[k].op = op})

\* the operations of every query so far are in order, once each, each made
\* after the one before returned Ok, the read with the 4096-byte buffer, and
\* the query on the i-th server on the i-th socket opened
QueryOrder ==
    /\ \A s \in DOMAIN servers :
          LET Q == QueryOps(s) IN
          /\ Len(Q) <= 5
          /\ \A k \in DOMAIN Q :
                /\ StageOf(Q[k]) = k
                /\ k < Len(Q) => IsSuccess(Q[k].st)
                /\ Q[k].op = "read" => Q[k].len = USize(0, 4096)
                /\ Q[k].op # "build" => Q[k].h = s
    /\ ret = "query" => \A k \in DOMAIN oplog : oplog[k].srv \in DOMAIN servers

\* query goes from one operation to the next only when the one before
\* returned Ok, and returns as soon as one returned an error
QueryStep ==
    (pc \in {"q_build", "q_connect", "q_write", "q_read"}) =>
        LET last == oplog'[Len(oplog')] IN
        /\ Len(oplog') = Len(oplog) + 1
        /\ last.srv = idx
        /\ IsSuccess(last.st) =>
              /\ pc' = (CASE pc = "q_build" -> "q_connect"
                          [] pc = "q_connect" -> "q_write"
                          [] pc = "q_write" -> "q_read"
                          [] pc = "q_read" -> "q_parse")
              /\ queries' = queries
        /\ ~IsSuccess(last.st) =>
              /\ pc' = "done"
              /\ Len(queries') = Len(queries) + 1
              /\ lh_result'.tag = "Err"

\* C16: within one query the operations come in the order build, connect,
\* write, read into the 4096-byte buffer, parse; each at most once and only
\* when every earlier one returned success; the socket opened for one server
\* is used for no other query.
C16_QuerySequence == []QueryOrder /\ [][QueryStep]_vars

C16_Witness ==
    /\ Len(servers) = 2 /\ idx = 2
    /\ CountOp(QueryOps(1), "parse") = 1
    /\ CountOp(QueryOps(2), "parse") = 1
    /\ handle = 2

\* ---------------------------------------------------------------- C17
Submissions(Q) == CountOp(Q, "Connect") + CountOp(Q, "Receive") + CountOp(Q, "Transmit")

\* C17: nothing is retried. In one lookup_host each discovered server is
\* queried and connected to at most once, so the sockets opened and the
\* connect attempts never outnumber the discovered servers; one call of
\* connect, read or write on a stream makes at most one Connect, Receive or
\* Transmit submission, followed by at most one wait.
C17_NoRetry ==
    /\ \A i \in DOMAIN servers :
          /\ TimesQueried(i) <= 1
          /\ \A op \in SocketOps : CountOp(QueryOps(i), op) <= 1
    /\ ret = "query" =>
          /\ handle <= Len(servers)
          /\ CountOp(oplog, "connect") <= Len(servers)
          /\ Len(queries) <= Len(servers)
    /\ ret = "user" =>
          /\ CountOp(oplog, "Connect") <= 1
          /\ CountOp(oplog, "Receive") + CountOp(oplog, "Transmit") <= calls
          /\ CountOp(oplog, "WaitForEvent") <= Submissions(oplog)

C17_Witness ==
    /\ Resolved /\ lh_result.tag = "Err"
    /\ Len(servers) = 2 /\ idx = 1
    /\ CountOp(QueryOps(1), "connect") = 1
    /\ CountOp(QueryOps(1), "write") = 1
    /\ CountOp(QueryOps(1), "read") = 0

\* ---------------------------------------------------------------- C18
\* C18: the platform's close operation is never invoked: no Close call is made
\* by connect, read, write, by the teardown of a stream or by query and
\* lookup_host on any of their exits; the close token is never submitted, its
\* event never fires and its status stays as Tcp4Stream::new() left it.
C18_CloseNeverSubmitted ==
    /\ CountOp(oplog, "Close") = 0
    /\ pending["close"] = 0
    /\ ~signaled["close"]
    /\ stream.close_token = new.close_token

\* a stream that was connected, read from and written to, and then dropped
C18_Witness ==
    /\ ret = "user" /\ pc = "done" /\ calls = 2
    /\ CountOp(oplog, "Receive") = 1
    /\ CountOp(oplog, "Transmit") = 1

\* ---------------------------------------------------------------- C19
WaitPcs == {"c_wait", "r_wait", "w_wait"}

WaitTok(p) ==
    CASE p = "c_wait" -> "connect"
      [] p = "r_wait" -> "recv"
      [] p = "w_wait" -> "send"

\* a call of lookup_host, connect, read or write is in progress
InCall == pc \notin {"idle", "u_ready", "done"}

\* the call has returned to its caller (a panic or a trap is no return)
Returned == pc \in {"u_ready", "done"} /\ lh_result # Panic

\* every call in progress returns, and so does every query of a lookup_host
CallsReturn ==
    /\ InCall ~> Returned
    /\ \A n \in 0..(MaxServers - 1) :
          (ret = "query" /\ InCall /\ Len(queries) = n) ~>
              (Len(queries) > n /\ queries[n + 1].res # Panic)

\* a wait is left only when its event has been signaled, and while the thread
\* is at a wait it does nothing else
WaitStep ==
    pc \in WaitPcs =>
        \/ /\ pc' = pc
           /\ UNCHANGED <<bootcfg, ret, servers, idx, lh_result, queries, handle,
                          io_result, buflen, calls, oplog>>
        \/ /\ pc' \in {"ret_connect", "ret_read", "ret_write"}
           /\ signaled[WaitTok(pc)]

\* C19: each wait blocks on one event with no timeout. When the platform
\* completes every submitted operation, every call of connect, read, write,
\* query and lookup_host eventually returns; a call at a wait whose event has
\* not fired does not return, and the thread does nothing else meanwhile.
C19_WaitBlocks == CallsReturn /\ [][WaitStep]_vars

\* ---------------------------------------------------------------- C20
\* the descriptor d is one fragment over a whole buffer of n bytes
Covers(d, n) ==
    /\ d.FragmentCount = 1
    /\ Len(d.FragmentTable) = 1
    /\ USize(0, d.FragmentTable[1].FragmentLength) = n
    /\ USize(0, d.DataLength) = n

\* C20: for every buffer length N passed to read or write, also N >= 2^32,
\* the descriptor submitted has exactly one fragment, the fragment's length
\* and the total data length both equal N, and N is what the call returns
\* on success.
C20_DescriptorCoversBuffer ==
    /\ pc = "r_wait" => Covers(stream.RxData, buflen)
    /\ pc = "w_wait" => Covers(stream.TxData, buflen)
    /\ (pc \in {"ret_read", "ret_write"} /\ io_result.tag = "Ok") => io_result.val = buflen

====
